---- MODULE Spec2Model ----
(***************************************************************************)
(* A model of the salt-cloud VirtualBox driver (src/virtualbox.py).        *)
(*                                                                         *)
(* The driver is a sequence of calls into three collaborators it does not  *)
(* own: the salt host (config.is_profile_configured, fire_event,           *)
(* deploy_script), the vboxapi library (VirtualBoxManager) and the         *)
(* hypervisor behind it (findMachine, createMachine, cloneTo,              *)
(* waitForCompletion, registerMachine, unregister, deleteConfig).  Every   *)
(* statement of the driver that calls a collaborator is one action; what   *)
(* the collaborator answers is an input drawn with \E.                     *)
(*                                                                         *)
(* Spec        one process calling the driver's functions one after another*)
(* SpecThreads several threads inside vb_get_manager at the same time      *)
(***************************************************************************)
EXTENDS Integers, Sequences, FiniteSets, TLC

VARIABLES
    _virtualboxManager,  \* the module global (line 43): NoManager or a manager id
    managersConstructed, \* how many VirtualBoxManager objects have been built
    handles,             \* the set of vbox handles vb_get_manager has returned
    inventory,           \* hypervisor: machine name -> "absent" or the content
                         \* of the registered machine ("empty","partial","full")
    pc,                  \* position of the process in the driver's code
    op,                  \* the function the host called
    vm_info,             \* create's argument (a Python dict: key -> value)
    name,                \* argument `name` of the vb_* function running
    clone_from,          \* argument `clone_from` of vb_clone_vm
    timeout,             \* argument `timeout` of vb_clone_vm / vb_destroy_machine
    vbox,                \* local `vbox` of the vb_* function running
    new_machine,         \* local `new_machine`: the unregistered machine object
    progress,            \* local `progress`: state of the IProgress object
    vm_result,           \* create's local `vm_result`
    result,              \* how the called function ended
    trace,               \* what the running call did so far, in order:
                         \* events fired, host calls, hypervisor calls
    numCalls,            \* how many driver functions the host has called
    tpc, tmgr, tvbox, tcalls  \* per thread, for SpecThreads

vars == <<_virtualboxManager, managersConstructed, handles, inventory, pc, op,
          vm_info, name, clone_from, timeout, vbox, new_machine, progress,
          vm_result, result, trace, numCalls, tpc, tmgr, tvbox, tcalls>>

procVars == <<inventory, pc, op, vm_info, name, clone_from, timeout, vbox,
              new_machine, progress, vm_result, result, trace, numCalls>>

threadVars == <<tpc, tmgr, tvbox, tcalls>>

-----------------------------------------------------------------------------
(* Bounds of the model *)

MaxCalls == 3
NumThreads == 2
MaxThreadCalls == 2

-----------------------------------------------------------------------------
(* Program constants and the small input sets *)

NoManager == 0
DefaultTimeout == 10000

VMNames == {"vm1", "vm2"}
MachineNames == {"template1", "vm1", "vm2"}
CloneSources == {"template1", "vm2"}
Timeouts == {DefaultTimeout, 20000}
Durations == {5000, 15000}
ValidatorOutcomes == {"True", "False", "AttributeError", "ValueError"}

-----------------------------------------------------------------------------
(* Python values *)

PyNone == [type |-> "NoneType"]
PyFalse == [type |-> "bool", val |-> FALSE]
PyDict(items) == [type |-> "dict", items |-> items]
EmptyItems == [k \in {} |-> ""]

\* Python's truth test, as `if x` / `x and y` apply it
PyTruthy(v) ==
    IF v.type = "dict" THEN DOMAIN v.items # {}
    ELSE IF v.type = "bool" THEN v.val
    ELSE FALSE

Profiles == {PyDict(EmptyItems), PyDict([image |-> "ubuntu"])}

\* the dict the host passes to create(); `profile` and `clone_from` may be missing
MkVmInfo(n, hasProfile, profile, hasCloneFrom, src) ==
    LET keys == {"name", "provider"}
                \cup (IF hasProfile THEN {"profile"} ELSE {})
                \cup (IF hasCloneFrom THEN {"clone_from"} ELSE {})
    IN [k \in keys |->
          IF k = "name" THEN n
          ELSE IF k = "provider" THEN "vb1"
          ELSE IF k = "profile" THEN profile
          ELSE src]

NoResult == [kind |-> "none", value |-> PyNone]
Return(v) == [kind |-> "return", value |-> v]
Raise(e) == [kind |-> "raise", value |-> [type |-> "exception", name |-> e]]

Event(tag, payload) == [kind |-> "event", tag |-> tag, payload |-> payload]
ApiCall(api) == [kind |-> "call", api |-> api]
HostCall(api, outcome) == [kind |-> "host", api |-> api, outcome |-> outcome]

NoMachine == [name |-> "", content |-> "none"]
NoVbox == <<"vbox", NoManager>>

-----------------------------------------------------------------------------
(* Pieces of create() *)

\* a tag template pasted without changing the phase
Tag_AlwaysCreating(n, phase) == <<"salt", "cloud", n, "creating">>

\* 'salt/cloud/{0}/<phase>'.format(vm_info['name'])
Tag(n, phase) == <<"salt", "cloud", n, phase>>

\* a bare `except:` in place of `except AttributeError:`
ProfileCheckCatches_Everything(exc) == TRUE

\* line 115: the only exception the profile check catches
ProfileCheckCatches(exc) == exc = "AttributeError"

\* the test written without `is False`
ProfileRejected_Truthiness(profile, outcome) == PyTruthy(profile) /\ outcome = "True"

\* lines 109-113: `vm_info['profile'] and is_profile_configured(...) is False`
ProfileRejected(profile, outcome) == PyTruthy(profile) /\ outcome = "False"

\* the test looking for a key the request always has
MissingCloneFrom_WrongKey(info) == "name" \notin DOMAIN info

\* line 119: `'clone_from' not in vm_info`
MissingCloneFrom(info) == "clone_from" \notin DOMAIN info

Finish(r) ==
    /\ pc' = "done"
    /\ result' = r

-----------------------------------------------------------------------------
(* Collaborators: what the library and the hypervisor answer *)

\* the `vbox` attribute of manager m
VboxOf(m) == <<"vbox", m>>

\* the cache test dropped: a manager is built on every call
NeedsManager_Always(m) == TRUE

\* line 195: `if _virtualboxManager is None`
NeedsManager(m) == m = NoManager

\* a lookup that hands back an object for any name
FindMachine_NeverRaises(inv, n) == TRUE

\* IVirtualBox.findMachine: finds registered machines only, raises otherwise
FindMachine(inv, n) == inv[n] # "absent"

\* IVirtualBox.createMachine: refuses a name whose settings file already exists
CanCreateMachine(inv, n) == inv[n] = "absent"

\* IProgress.waitForCompletion(timeout): returns when the operation is done or
\* when `timeout` ms have passed, whichever is first, and reports neither;
\* the operation is complete on return iff it took no longer than the timeout
WaitForCompletion(duration, t) == duration <= t

\* line 252: vb_clone_vm ends without a return statement
CloneReturnValue == PyNone

-----------------------------------------------------------------------------
(* The state after import *)

Threads == 1..NumThreads

Init ==
    /\ _virtualboxManager = NoManager
    /\ managersConstructed = 0
    /\ handles = {}
    /\ inventory = [m \in MachineNames |-> IF m = "template1" THEN "full" ELSE "absent"]
    /\ pc = "idle"
    /\ op = "none"
    /\ vm_info = EmptyItems
    /\ name = ""
    /\ clone_from = ""
    /\ timeout = DefaultTimeout
    /\ vbox = NoVbox
    /\ new_machine = NoMachine
    /\ progress = "none"
    /\ vm_result = PyNone
    /\ result = NoResult
    /\ trace = << >>
    /\ numCalls = 0
    /\ tpc = [t \in Threads |-> "idle"]
    /\ tmgr = [t \in Threads |-> NoManager]
    /\ tvbox = [t \in Threads |-> NoVbox]
    /\ tcalls = [t \in Threads |-> 0]

-----------------------------------------------------------------------------
(* The host calls a function of the driver *)

Begin(o, info, n, src, t, startpc) ==
    /\ pc \in {"idle", "done"}
    /\ numCalls < MaxCalls
    /\ numCalls' = numCalls + 1
    /\ op' = o
    /\ vm_info' = info
    /\ name' = n
    /\ clone_from' = src
    /\ timeout' = t
    /\ pc' = startpc
    /\ vbox' = NoVbox
    /\ new_machine' = NoMachine
    /\ progress' = "none"
    /\ vm_result' = PyNone
    /\ result' = NoResult
    /\ trace' = << >>
    /\ UNCHANGED <<_virtualboxManager, managersConstructed, handles, inventory>>
    /\ UNCHANGED threadVars

CallCreate ==
    \E n \in VMNames, hasProfile \in BOOLEAN, profile \in Profiles,
       hasCloneFrom \in BOOLEAN, src \in CloneSources :
        Begin("create", MkVmInfo(n, hasProfile, profile, hasCloneFrom, src),
              "", "", DefaultTimeout, "create_profile")

CallCreateMachine ==
    \E n \in VMNames :
        Begin("vb_create_machine", EmptyItems, n, "", DefaultTimeout, "mk_get_manager")

CallCloneVm ==
    \E n \in VMNames, src \in CloneSources, t \in Timeouts :
        Begin("vb_clone_vm", EmptyItems, n, src, t, "clone_get_manager")

CallDestroyMachine ==
    \E n \in MachineNames, t \in Timeouts :
        Begin("vb_destroy_machine", EmptyItems, n, "", t, "destroy_get_manager")

-----------------------------------------------------------------------------
(* create(vm_info) *)

\* lines 106-116: the profile check
CreateCheckProfile ==
    /\ pc = "create_profile"
    /\ IF "profile" \notin DOMAIN vm_info
       THEN \* vm_info['profile'] raises KeyError inside the try
            /\ trace' = trace
            /\ IF ProfileCheckCatches("KeyError")
               THEN pc' = "create_clone_from" /\ result' = result
               ELSE Finish(Raise("KeyError"))
       ELSE IF ~PyTruthy(vm_info["profile"])
       THEN \* `and` short-circuits: the validator is not called
            /\ trace' = trace
            /\ pc' = "create_clone_from" /\ result' = result
       ELSE \E outcome \in ValidatorOutcomes :
            /\ trace' = Append(trace, HostCall("is_profile_configured", outcome))
            /\ IF outcome \in {"True", "False"}
               THEN IF ProfileRejected(vm_info["profile"], outcome)
                    THEN Finish(Return(PyFalse))
                    ELSE pc' = "create_clone_from" /\ result' = result
               ELSE IF ProfileCheckCatches(outcome)
                    THEN pc' = "create_clone_from" /\ result' = result
                    ELSE Finish(Raise(outcome))
    /\ UNCHANGED <<_virtualboxManager, managersConstructed, handles, inventory, op,
                   vm_info, name, clone_from, timeout, vbox, new_machine, progress,
                   vm_result, numCalls>>
    /\ UNCHANGED threadVars

\* lines 118-121
CreateCheckCloneFrom ==
    /\ pc = "create_clone_from"
    /\ IF MissingCloneFrom(vm_info)
       THEN Finish(Return(PyFalse))
       ELSE pc' = "fire_creating" /\ result' = result
    /\ UNCHANGED <<_virtualboxManager, managersConstructed, handles, inventory, op,
                   vm_info, name, clone_from, timeout, vbox, new_machine, progress,
                   vm_result, trace, numCalls>>
    /\ UNCHANGED threadVars

\* salt.utils.cloud.fire_event(...): no try around it, so what the sink raises
\* leaves create()
FireEvent(phase, payload, nextpc) ==
    \E delivered \in BOOLEAN :
        IF delivered
        THEN /\ trace' = Append(trace, Event(Tag(vm_info["name"], phase), payload))
             /\ pc' = nextpc
             /\ result' = result
        ELSE /\ trace' = Append(trace, HostCall("fire_event", "raise"))
             /\ Finish(Raise("EventSinkError"))

\* lines 123-133
FireCreating ==
    /\ pc = "fire_creating"
    /\ IF "profile" \in DOMAIN vm_info
       THEN FireEvent("creating",
                      PyDict([name |-> vm_info["name"],
                              profile |-> vm_info["profile"],
                              provider |-> vm_info["provider"]]),
                      "fire_requesting")
       ELSE trace' = trace /\ Finish(Raise("KeyError"))
    /\ UNCHANGED <<_virtualboxManager, managersConstructed, handles, inventory, op,
                   vm_info, name, clone_from, timeout, vbox, new_machine, progress,
                   vm_result, numCalls>>
    /\ UNCHANGED threadVars

\* lines 137-150: request_kwargs, the event, and the call of vb_clone_vm
FireRequesting ==
    /\ pc = "fire_requesting"
    /\ IF "clone_from" \in DOMAIN vm_info
       THEN /\ name' = vm_info["name"]
            /\ clone_from' = vm_info["clone_from"]
            /\ FireEvent("requesting",
                         PyDict([name |-> vm_info["name"],
                                 clone_from |-> vm_info["clone_from"]]),
                         "clone_get_manager")
       ELSE \* vm_info['clone_from'] raises KeyError while request_kwargs is built
            /\ Finish(Raise("KeyError"))
            /\ UNCHANGED <<name, clone_from, trace>>
    /\ UNCHANGED <<_virtualboxManager, managersConstructed, handles, inventory, op,
                   vm_info, timeout, vbox, new_machine, progress, vm_result, numCalls>>
    /\ UNCHANGED threadVars

\* lines 155-164
FireDeploying ==
    /\ pc = "fire_deploying"
    /\ FireEvent("deploying", PyDict(EmptyItems), "deploy_script")
    /\ UNCHANGED <<_virtualboxManager, managersConstructed, handles, inventory, op,
                   vm_info, name, clone_from, timeout, vbox, new_machine, progress,
                   vm_result, numCalls>>
    /\ UNCHANGED threadVars

\* line 173: salt.utils.cloud.deploy_script(None)
DeployScript ==
    /\ pc = "deploy_script"
    /\ \E ok \in BOOLEAN :
        IF ok
        THEN /\ trace' = Append(trace, HostCall("deploy_script", "return"))
             /\ pc' = "fire_created"
             /\ result' = result
        ELSE /\ trace' = Append(trace, HostCall("deploy_script", "raise"))
             /\ Finish(Raise("DeployError"))
    /\ UNCHANGED <<_virtualboxManager, managersConstructed, handles, inventory, op,
                   vm_info, name, clone_from, timeout, vbox, new_machine, progress,
                   vm_result, numCalls>>
    /\ UNCHANGED threadVars

\* lines 175-184: the last event, then `return vm_result`
FireCreated ==
    /\ pc = "fire_created"
    /\ \E delivered \in BOOLEAN :
        IF delivered
        THEN /\ trace' = Append(trace, Event(Tag(vm_info["name"], "created"), vm_result))
             /\ Finish(Return(vm_result))
        ELSE /\ trace' = Append(trace, HostCall("fire_event", "raise"))
             /\ Finish(Raise("EventSinkError"))
    /\ UNCHANGED <<_virtualboxManager, managersConstructed, handles, inventory, op,
                   vm_info, name, clone_from, timeout, vbox, new_machine, progress,
                   vm_result, numCalls>>
    /\ UNCHANGED threadVars

-----------------------------------------------------------------------------
(* vb_get_manager(), as one step of the calling function *)

\* lines 191-198
GetManager(nextpc) ==
    IF NeedsManager(_virtualboxManager)
    THEN \E connected \in BOOLEAN :
         /\ trace' = Append(trace, ApiCall("VirtualBoxManager"))
         /\ IF connected
            THEN /\ managersConstructed' = managersConstructed + 1
                 /\ _virtualboxManager' = managersConstructed + 1
                 /\ vbox' = VboxOf(managersConstructed + 1)
                 /\ handles' = handles \cup {VboxOf(managersConstructed + 1)}
                 /\ pc' = nextpc
                 /\ result' = result
            ELSE \* the constructor raises: the global is not assigned
                 /\ Finish(Raise("ConnectionError"))
                 /\ UNCHANGED <<_virtualboxManager, managersConstructed, vbox, handles>>
    ELSE /\ vbox' = VboxOf(_virtualboxManager)
         /\ handles' = handles \cup {VboxOf(_virtualboxManager)}
         /\ pc' = nextpc
         /\ UNCHANGED <<_virtualboxManager, managersConstructed, result, trace>>

-----------------------------------------------------------------------------
(* vb_clone_vm(name, clone_from, timeout), called by the host or by create() *)

\* line 226
CloneGetManager ==
    /\ pc = "clone_get_manager"
    /\ GetManager("clone_find")
    /\ UNCHANGED <<inventory, op, vm_info, name, clone_from, timeout, new_machine,
                   progress, vm_result, numCalls>>
    /\ UNCHANGED threadVars

\* line 229
CloneFindMachine ==
    /\ pc = "clone_find"
    /\ trace' = Append(trace, ApiCall("findMachine"))
    /\ IF FindMachine(inventory, clone_from)
       THEN pc' = "clone_create" /\ result' = result
       ELSE Finish(Raise("VBoxNotFound"))
    /\ UNCHANGED <<_virtualboxManager, managersConstructed, handles, inventory, op,
                   vm_info, name, clone_from, timeout, vbox, new_machine, progress,
                   vm_result, numCalls>>
    /\ UNCHANGED threadVars

\* lines 231-239
CloneCreateMachine ==
    /\ pc = "clone_create"
    /\ trace' = Append(trace, ApiCall("createMachine"))
    /\ IF CanCreateMachine(inventory, name)
       THEN /\ new_machine' = [name |-> name, content |-> "empty"]
            /\ pc' = "clone_cloneTo"
            /\ result' = result
       ELSE /\ new_machine' = new_machine
            /\ Finish(Raise("VBoxFileError"))
    /\ UNCHANGED <<_virtualboxManager, managersConstructed, handles, inventory, op,
                   vm_info, name, clone_from, timeout, vbox, progress, vm_result,
                   numCalls>>
    /\ UNCHANGED threadVars

\* lines 241-245: the hypervisor starts copying and hands back a progress object
CloneCloneTo ==
    /\ pc = "clone_cloneTo"
    /\ trace' = Append(trace, ApiCall("cloneTo"))
    /\ new_machine' = [new_machine EXCEPT !.content = "partial"]
    /\ progress' = "running"
    /\ pc' = "clone_wait"
    /\ UNCHANGED <<_virtualboxManager, managersConstructed, handles, inventory, op,
                   vm_info, name, clone_from, timeout, vbox, vm_result, result,
                   numCalls>>
    /\ UNCHANGED threadVars

\* line 247: progress.waitForCompletion(timeout); its outcome is not looked at
CloneWait ==
    /\ pc = "clone_wait"
    /\ trace' = Append(trace, ApiCall("waitForCompletion"))
    /\ \E duration \in Durations, waitFails \in BOOLEAN :
        IF waitFails
        THEN /\ Finish(Raise("VBoxError"))
             /\ UNCHANGED <<new_machine, progress>>
        ELSE /\ IF WaitForCompletion(duration, timeout)
                THEN /\ progress' = "completed"
                     /\ new_machine' = [new_machine EXCEPT !.content = "full"]
                ELSE UNCHANGED <<new_machine, progress>>
             /\ pc' = "clone_register"
             /\ result' = result
    /\ UNCHANGED <<_virtualboxManager, managersConstructed, handles, inventory, op,
                   vm_info, name, clone_from, timeout, vbox, vm_result, numCalls>>
    /\ UNCHANGED threadVars

\* lines 248-252: registerMachine, then the function ends
CloneRegister ==
    /\ pc = "clone_register"
    /\ trace' = Append(trace, ApiCall("registerMachine"))
    /\ inventory' = [inventory EXCEPT ![new_machine.name] = new_machine.content]
    /\ IF op = "create"
       THEN \* line 150: vm_result = vb_clone_vm(**request_kwargs)
            /\ vm_result' = CloneReturnValue
            /\ pc' = "fire_deploying"
            /\ result' = result
       ELSE /\ vm_result' = vm_result
            /\ Finish(Return(CloneReturnValue))
    /\ UNCHANGED <<_virtualboxManager, managersConstructed, handles, op, vm_info,
                   name, clone_from, timeout, vbox, new_machine, progress, numCalls>>
    /\ UNCHANGED threadVars

-----------------------------------------------------------------------------
(* vb_create_machine(name) *)

\* line 202
MkGetManager ==
    /\ pc = "mk_get_manager"
    /\ GetManager("mk_create")
    /\ UNCHANGED <<inventory, op, vm_info, name, clone_from, timeout, new_machine,
                   progress, vm_result, numCalls>>
    /\ UNCHANGED threadVars

\* lines 203-212
MkCreateMachine ==
    /\ pc = "mk_create"
    /\ trace' = Append(trace, ApiCall("createMachine"))
    /\ IF CanCreateMachine(inventory, name)
       THEN /\ new_machine' = [name |-> name, content |-> "empty"]
            /\ pc' = "mk_register"
            /\ result' = result
       ELSE /\ new_machine' = new_machine
            /\ Finish(Raise("VBoxFileError"))
    /\ UNCHANGED <<_virtualboxManager, managersConstructed, handles, inventory, op,
                   vm_info, name, clone_from, timeout, vbox, progress, vm_result,
                   numCalls>>
    /\ UNCHANGED threadVars

\* lines 213-214
MkRegisterMachine ==
    /\ pc = "mk_register"
    /\ trace' = Append(trace, ApiCall("registerMachine"))
    /\ inventory' = [inventory EXCEPT ![new_machine.name] = new_machine.content]
    /\ Finish(Return(PyNone))
    /\ UNCHANGED <<_virtualboxManager, managersConstructed, handles, op, vm_info,
                   name, clone_from, timeout, vbox, new_machine, progress, vm_result,
                   numCalls>>
    /\ UNCHANGED threadVars

-----------------------------------------------------------------------------
(* vb_destroy_machine(name, timeout) *)

\* line 270
DestroyGetManager ==
    /\ pc = "destroy_get_manager"
    /\ GetManager("destroy_find")
    /\ UNCHANGED <<inventory, op, vm_info, name, clone_from, timeout, new_machine,
                   progress, vm_result, numCalls>>
    /\ UNCHANGED threadVars

\* line 272
DestroyFindMachine ==
    /\ pc = "destroy_find"
    /\ trace' = Append(trace, ApiCall("findMachine"))
    /\ IF FindMachine(inventory, name)
       THEN pc' = "destroy_unregister" /\ result' = result
       ELSE Finish(Raise("VBoxNotFound"))
    /\ UNCHANGED <<_virtualboxManager, managersConstructed, handles, inventory, op,
                   vm_info, name, clone_from, timeout, vbox, new_machine, progress,
                   vm_result, numCalls>>
    /\ UNCHANGED threadVars

\* line 273: machine.unregister(2)
DestroyUnregister ==
    /\ pc = "destroy_unregister"
    /\ trace' = Append(trace, ApiCall("unregister"))
    /\ inventory' = [inventory EXCEPT ![name] = "absent"]
    /\ pc' = "destroy_delete"
    /\ UNCHANGED <<_virtualboxManager, managersConstructed, handles, op, vm_info,
                   name, clone_from, timeout, vbox, new_machine, progress, vm_result,
                   result, numCalls>>
    /\ UNCHANGED threadVars

\* line 274: machine.deleteConfig(files) hands back a progress object
DestroyDeleteConfig ==
    /\ pc = "destroy_delete"
    /\ trace' = Append(trace, ApiCall("deleteConfig"))
    /\ progress' = "running"
    /\ pc' = "destroy_wait"
    /\ UNCHANGED <<_virtualboxManager, managersConstructed, handles, inventory, op,
                   vm_info, name, clone_from, timeout, vbox, new_machine, vm_result,
                   result, numCalls>>
    /\ UNCHANGED threadVars

\* lines 275-276: progress.waitForCompletion(timeout), then the function ends
DestroyWait ==
    /\ pc = "destroy_wait"
    /\ trace' = Append(trace, ApiCall("waitForCompletion"))
    /\ \E duration \in Durations, waitFails \in BOOLEAN :
        IF waitFails
        THEN /\ Finish(Raise("VBoxError"))
             /\ progress' = progress
        ELSE /\ progress' = IF WaitForCompletion(duration, timeout)
                            THEN "completed" ELSE progress
             /\ Finish(Return(PyNone))
    /\ UNCHANGED <<_virtualboxManager, managersConstructed, handles, inventory, op,
                   vm_info, name, clone_from, timeout, vbox, new_machine, vm_result,
                   numCalls>>
    /\ UNCHANGED threadVars

-----------------------------------------------------------------------------
(* One process *)

Next ==
    \/ CallCreate
    \/ CallCreateMachine
    \/ CallCloneVm
    \/ CallDestroyMachine
    \/ CreateCheckProfile
    \/ CreateCheckCloneFrom
    \/ FireCreating
    \/ FireRequesting
    \/ FireDeploying
    \/ DeployScript
    \/ FireCreated
    \/ CloneGetManager
    \/ CloneFindMachine
    \/ CloneCreateMachine
    \/ CloneCloneTo
    \/ CloneWait
    \/ CloneRegister
    \/ MkGetManager
    \/ MkCreateMachine
    \/ MkRegisterMachine
    \/ DestroyGetManager
    \/ DestroyFindMachine
    \/ DestroyUnregister
    \/ DestroyDeleteConfig
    \/ DestroyWait

Spec == Init /\ [][Next]_vars

-----------------------------------------------------------------------------
(* Several threads call a machine operation at once.  Every machine        *)
(* operation starts with vb_get_manager(), which takes no lock; a thread    *)
(* switch can fall between any two of its reads and writes of the global.   *)

\* a thread enters vb_get_manager (lines 202, 226, 270)
TCall(t) ==
    /\ tpc[t] \in {"idle", "done"}
    /\ tcalls[t] < MaxThreadCalls
    /\ tcalls' = [tcalls EXCEPT ![t] = @ + 1]
    /\ tvbox' = [tvbox EXCEPT ![t] = NoVbox]
    /\ tmgr' = [tmgr EXCEPT ![t] = NoManager]
    /\ tpc' = [tpc EXCEPT ![t] = "check"]
    /\ UNCHANGED <<_virtualboxManager, managersConstructed, handles>>
    /\ UNCHANGED procVars

\* line 195: read the global and test it
TCheck(t) ==
    /\ tpc[t] = "check"
    /\ tpc' = [tpc EXCEPT ![t] = IF NeedsManager(_virtualboxManager)
                                 THEN "construct" ELSE "read"]
    /\ UNCHANGED <<_virtualboxManager, managersConstructed, handles, tmgr, tvbox, tcalls>>
    /\ UNCHANGED procVars

\* line 196, right-hand side: VirtualBoxManager(None, None)
TConstruct(t) ==
    /\ tpc[t] = "construct"
    /\ \E connected \in BOOLEAN :
        IF connected
        THEN /\ managersConstructed' = managersConstructed + 1
             /\ tmgr' = [tmgr EXCEPT ![t] = managersConstructed + 1]
             /\ tpc' = [tpc EXCEPT ![t] = "assign"]
        ELSE /\ tpc' = [tpc EXCEPT ![t] = "done"]
             /\ UNCHANGED <<managersConstructed, tmgr>>
    /\ UNCHANGED <<_virtualboxManager, handles, tvbox, tcalls>>
    /\ UNCHANGED procVars

\* line 196: store into the global
TAssign(t) ==
    /\ tpc[t] = "assign"
    /\ _virtualboxManager' = tmgr[t]
    /\ tpc' = [tpc EXCEPT ![t] = "read"]
    /\ UNCHANGED <<managersConstructed, handles, tmgr, tvbox, tcalls>>
    /\ UNCHANGED procVars

\* lines 197-198: read the global again, return its vbox
TRead(t) ==
    /\ tpc[t] = "read"
    /\ tvbox' = [tvbox EXCEPT ![t] = VboxOf(_virtualboxManager)]
    /\ handles' = handles \cup {VboxOf(_virtualboxManager)}
    /\ tpc' = [tpc EXCEPT ![t] = "done"]
    /\ UNCHANGED <<_virtualboxManager, managersConstructed, tmgr, tcalls>>
    /\ UNCHANGED procVars

NextThreads ==
    \E t \in Threads :
        \/ TCall(t)
        \/ TCheck(t)
        \/ TConstruct(t)
        \/ TAssign(t)
        \/ TRead(t)

SpecThreads == Init /\ [][NextThreads]_vars

-----------------------------------------------------------------------------
(* Reading the trace of the running call *)

Events == SelectSeq(trace, LAMBDA e : e.kind = "event")
HypervisorCalls == SelectSeq(trace, LAMBDA e : e.kind = "call")
Phases == [i \in 1..Len(Events) |-> Events[i].tag[4]]
Apis == [i \in 1..Len(HypervisorCalls) |-> HypervisorCalls[i].api]
HasCalled(api) == \E i \in 1..Len(trace) : trace[i].kind = "call" /\ trace[i].api = api
EventSinkRaised ==
    \E i \in 1..Len(trace) : trace[i].kind = "host" /\ trace[i].api = "fire_event"
ValidatorAnswer ==
    IF trace # << >> /\ trace[1].kind = "host" /\ trace[1].api = "is_profile_configured"
    THEN trace[1].outcome ELSE "not called"
\* the exception the profile check of the running create() raised, if any
ProfileCheckException ==
    IF "profile" \notin DOMAIN vm_info THEN "KeyError"
    ELSE IF ValidatorAnswer \in {"AttributeError", "ValueError"} THEN ValidatorAnswer
    ELSE "none"
InCreate == op = "create" /\ pc # "create_profile"
NoHypervisorCallNoEvent == Events = << >> /\ HypervisorCalls = << >>
Raised(e) == result.kind = "raise" /\ result.value.name = e
\* position in the trace of the event of a phase (0: not fired)
EventAt(phase) ==
    LET S == {i \in 1..Len(trace) : trace[i].kind = "event" /\ trace[i].tag[4] = phase}
    IN IF S = {} THEN 0 ELSE CHOOSE i \in S : TRUE

-----------------------------------------------------------------------------
(* C1 *)

\* C1, as stated: a create() whose request has no clone_from key ends by
\* returning False, having made no hypervisor call and fired no event.
C1_ReturnsFalse ==
    (op = "create" /\ "clone_from" \notin DOMAIN vm_info /\ pc = "done")
        => (result = Return(PyFalse) /\ NoHypervisorCallNoEvent)

\* C1, amended: a create() whose request has no clone_from key makes no
\* hypervisor call and fires no event; it ends by returning False, unless its
\* profile check raised an exception other than AttributeError, which leaves
\* create() instead.
C1_NoCloneFromNoSideEffect ==
    (op = "create" /\ "clone_from" \notin DOMAIN vm_info)
        => /\ NoHypervisorCallNoEvent
           /\ pc \in {"create_profile", "create_clone_from", "done"}
           /\ pc = "done" =>
                IF ProfileCheckException \in {"KeyError", "ValueError"}
                THEN result = Raise(ProfileCheckException)
                ELSE result = Return(PyFalse)

\* a request with an accepted non-empty profile and no clone_from was refused
C1_Witness ==
    /\ op = "create" /\ pc = "done"
    /\ "clone_from" \notin DOMAIN vm_info
    /\ ValidatorAnswer = "True"
    /\ result = Return(PyFalse)

-----------------------------------------------------------------------------
(* C2 *)

\* C2: once the validator has answered False for a non-empty profile, create()
\* has ended returning False, with no event fired and no hypervisor call made,
\* whether or not the request has a clone_from key.
C2_InvalidProfileRejected ==
    (op = "create" /\ ValidatorAnswer = "False")
        => /\ pc = "done"
           /\ result = Return(PyFalse)
           /\ NoHypervisorCallNoEvent

\* a request with clone_from and a profile the validator refused has ended
C2_Witness ==
    /\ op = "create" /\ pc = "done"
    /\ ValidatorAnswer = "False"
    /\ PyTruthy(vm_info["profile"])
    /\ "clone_from" \in DOMAIN vm_info

-----------------------------------------------------------------------------
(* C3 *)

\* C3: a create() that ran to its return statement fired exactly the events
\* creating, requesting, deploying, created, in that order, each tagged
\* salt/cloud/<name>/<phase>, and made its hypervisor calls findMachine,
\* createMachine, cloneTo, waitForCompletion, registerMachine (after building
\* the manager if there was none) between requesting and deploying.
C3_FourEventsInOrder ==
    (op = "create" /\ pc = "done" /\ result.kind = "return" /\ result.value # PyFalse)
        => /\ Len(Events) = 4
           /\ \A i \in 1..4 :
                Events[i].tag = <<"salt", "cloud", vm_info["name"],
                                  <<"creating", "requesting", "deploying", "created">>[i]>>
           /\ Apis \in {<<"findMachine", "createMachine", "cloneTo",
                          "waitForCompletion", "registerMachine">>,
                        <<"VirtualBoxManager", "findMachine", "createMachine", "cloneTo",
                          "waitForCompletion", "registerMachine">>}
           /\ \A i \in 1..Len(trace) :
                trace[i].kind = "call"
                    => EventAt("requesting") < i /\ i < EventAt("deploying")

\* a create() returned after cloning an existing template
C3_Witness ==
    /\ op = "create" /\ pc = "done"
    /\ result.kind = "return" /\ result.value # PyFalse
    /\ HasCalled("registerMachine")
    /\ Len(Events) = 4

-----------------------------------------------------------------------------
(* C4 *)

\* C4, as stated: when create() returns after the created event, the value
\* it returns and the payload of that event are non-empty (truthy), and the
\* machine named in the request is registered.
C4_ResultNonEmpty ==
    (op = "create" /\ pc = "done" /\ result.kind = "return" /\ EventAt("created") > 0)
        => /\ PyTruthy(result.value)
           /\ PyTruthy(trace[EventAt("created")].payload)
           /\ inventory[vm_info["name"]] # "absent"

-----------------------------------------------------------------------------
(* C5 *)

\* C5: when create() has called findMachine for a clone_from that is not
\* registered, it has ended with the hypervisor's not-found error, the events
\* fired are exactly creating and requesting, and no createMachine, cloneTo or
\* registerMachine call was made.
C5_MissingTemplateNotFound ==
    (op = "create" /\ HasCalled("findMachine")
        /\ inventory[vm_info["clone_from"]] = "absent")
        => /\ pc = "done"
           /\ result = Raise("VBoxNotFound")
           /\ Phases = <<"creating", "requesting">>
           /\ \A i \in 1..Len(Apis) : Apis[i] \in {"VirtualBoxManager", "findMachine"}
           /\ new_machine = NoMachine

\* create() looked up a template the hypervisor does not have
C5_Witness ==
    /\ op = "create" /\ pc = "done"
    /\ HasCalled("findMachine")
    /\ inventory[vm_info["clone_from"]] = "absent"
    /\ Raised("VBoxNotFound")

-----------------------------------------------------------------------------
(* C6 *)

\* C6, as stated: when waitForCompletion has returned and the operation is
\* still running, the call has ended with an error and registerMachine was
\* not called; a machine being cloned is registered only with its full content.
C6_TimeoutIsHardFailure ==
    /\ (HasCalled("waitForCompletion") /\ progress = "running")
          => (pc = "done" /\ result.kind = "raise" /\ ~HasCalled("registerMachine"))
    /\ (HasCalled("cloneTo") /\ new_machine # NoMachine)
          => inventory[new_machine.name] \in {"absent", "full"}

-----------------------------------------------------------------------------
(* C7 *)

\* C7: in one process, the cached manager is never replaced or reset once set;
\* a VirtualBoxManager is built only while no call of vb_get_manager has yet
\* returned a handle; and every handle returned is the vbox of the cached
\* manager, so all calls return the same one.
C7_ManagerCachedOnce ==
    [][ /\ _virtualboxManager # NoManager => _virtualboxManager' = _virtualboxManager
        /\ managersConstructed' # managersConstructed
              => (handles = {} /\ _virtualboxManager = NoManager)
        /\ handles' # handles => handles' = {VboxOf(_virtualboxManager')}
        /\ vbox' # vbox /\ vbox' # NoVbox => vbox' = VboxOf(_virtualboxManager')
        /\ Cardinality(handles') <= 1
      ]_vars

\* a later operation got the manager the first one built, building nothing
C7_Witness ==
    /\ numCalls >= 2
    /\ pc = "done" /\ result.kind = "return"
    /\ ~HasCalled("VirtualBoxManager")
    /\ vbox # NoVbox /\ vbox = VboxOf(_virtualboxManager)
    /\ managersConstructed = 1

-----------------------------------------------------------------------------
(* C8 *)

\* C8, as stated: when the event sink has raised during create(), create() is
\* not ended by that exception.
C8_EventFailureDoesNotAbort ==
    (op = "create" /\ EventSinkRaised) => ~(pc = "done" /\ Raised("EventSinkError"))

-----------------------------------------------------------------------------
(* C9 *)

\* C9, as stated: whatever exception the profile check raised, create() is not
\* ended by it.
C9_AnyExceptionCaught ==
    (InCreate /\ ProfileCheckException # "none")
        => ~(pc = "done" /\ Raised(ProfileCheckException))

\* C9, amended: an AttributeError raised by the profile check is caught and
\* create() goes on to the clone_from check; any other exception raised there
\* (the KeyError of a request with no profile key included) ends create(),
\* before any event or hypervisor call.
C9_OnlyAttributeErrorCaught ==
    (InCreate /\ ProfileCheckException # "none")
        => IF ProfileCheckException = "AttributeError"
           THEN /\ ~Raised("AttributeError")
                /\ IF "clone_from" \in DOMAIN vm_info
                   THEN pc = "create_clone_from" \/ pc = "fire_creating"
                        \/ Events # << >> \/ EventSinkRaised
                   ELSE pc = "create_clone_from"
                        \/ (pc = "done" /\ result = Return(PyFalse))
           ELSE /\ pc = "done"
                /\ result = Raise(ProfileCheckException)
                /\ NoHypervisorCallNoEvent

\* the validator raised AttributeError and create() went on to fire events
C9_Witness ==
    /\ InCreate
    /\ ProfileCheckException = "AttributeError"
    /\ Len(Events) >= 1

-----------------------------------------------------------------------------
(* C10 *)

\* C10, as stated: with threads inside vb_get_manager at the same time, at most
\* one VirtualBoxManager is ever built and all callers get the same handle.
C10_InitializedAtMostOnce ==
    /\ managersConstructed <= 1
    /\ Cardinality(handles) <= 1

====
